---- MODULE Spec2Model ----
(***************************************************************************)
(* A model of the screenshot planner, the capture driver and the image     *)
(* comparison of taxi (lib/helpers/screenshot.js, lib/helpers/             *)
(* comparison.js, lib/comparison/blinkdiff.js).                            *)
(*                                                                         *)
(* The specifications share the variables below; each one pins the         *)
(* variables of the other components to their idle values.                 *)
(*   SpecPlan     the section planner of Screenshot._takeScreenshot        *)
(*   SpecStitch   the planner followed by Screenshot._stitchImages         *)
(*   SpecCapture  a document screenshot from the init script to the revert *)
(*   SpecCompare  Comparison.compare over the BlinkDiff plugin             *)
(*   SpecSession  the session caches devicePixelRatio and needsStitching   *)
(*   SpecArea     repeated applications of Screenshot._validateArea        *)
(*   SpecWait     Utils.waitUntil                                          *)
(***************************************************************************)
EXTENDS Integers, Sequences, FiniteSets, TLC

VARIABLES
    \* ---- planner (Screenshot._takeScreenshot, synchronous part) ----
    pc,                 \* position of the screenshot operation
    initData,           \* JSON.parse of screenshotScripts.init: document, viewPort
    padding,            \* options.padding.viewPort after _browserPadding
    maxImageResolution, \* driver value 'maxImageResolution' (configured)
    devicePixelRatio,   \* cached driver value 'devicePixelRatio'
    needsStitching,     \* cached driver value 'needsStitching'
    area,               \* capture area after _validateArea
    sections,           \* result of _gatherSections
    composite,          \* the image _stitchImages assembles: its size and its copies
    \* ---- capture driver ----
    mode,               \* "sync" | "async" (Driver.MODE_SYNC / MODE_ASYNC)
    options,            \* the options argument of the screenshot call
    cursor,             \* index into the flattened list of planned view-ports
    step,               \* step of _takeViewPortScreenshot about to run
    log,                \* sequence of gateway calls and delays performed
    images,             \* view-port index -> raw screenshot stored (viewPort.image)
    inflight,           \* positions in log of the browser calls not yet resolved
    \* ---- comparison ----
    config,             \* driver values blinkDiff.*
    files,              \* the file system: path -> content (NoFile when absent)
    callOptions,        \* the caller's options object (mutated by compare)
    queue,              \* plugins still to run in Comparison._compare
    outcome,            \* what the caller of the last compare call has observed
    events,             \* the tool invocations of the last compare call (or of the series), in order
    calls,              \* number of Comparison.compare calls made
    \* ---- helpers ----
    session,            \* the driver's value registry and the calibration calls
    waiter,             \* one Utils.waitUntil call
    validation,         \* successive applications of _validateArea to one area
    deferred,           \* one when(val, cb, eb) call and the promise it is given
    document            \* the styles of the page around one calibration

planVars    == <<pc, initData, padding, maxImageResolution, devicePixelRatio,
                 needsStitching, area, sections, composite>>
captureVars == <<mode, options, cursor, step, log, images, inflight>>
compareVars == <<config, files, callOptions, queue, outcome, events, calls>>
helperVars  == <<session, waiter, validation, deferred, document>>
vars        == <<planVars, captureVars, compareVars, helperVars>>

(***************************************************************************)
(* Bounds of the model.                                                    *)
(***************************************************************************)
MaxDoc == 3     \* document width and height range over 1..MaxDoc
MaxVp  == 2     \* view-port width and height range over 1..MaxVp
MaxPad == 3     \* view-port padding (top, left) ranges over 0..MaxPad
MaxRes == 6     \* configured maxImageResolution ranges over 1..MaxRes
MaxCalls == 1   \* Comparison.compare calls in one behaviour
MaxTools == 3   \* length of the plugin list of one compare call

Ratios == {1, 2}    \* device-pixel-ratios (exact in binary floating point)

(***************************************************************************)
(* JavaScript arithmetic on the values the planner meets.  A number is     *)
(* [kind |-> "num", n |-> an integer], or NaN, or Infinity.                *)
(***************************************************************************)
Num(n)   == [kind |-> "num", n |-> n]
NaN      == [kind |-> "NaN", n |-> 0]
Infinity == [kind |-> "Infinity", n |-> 0]

Min(a, b) == IF a <= b THEN a ELSE b

\* Math.floor(a / b) for integers a >= 0 and b # 0 (b may be negative).
FloorDiv(a, b) == IF b > 0 THEN a \div b ELSE (0 - a) \div (0 - b)

\* Math.ceil(a / b) for integers a >= 0 and b > 0.
CeilDiv(a, b) == (a + b - 1) \div b

\* Math.ceil(a / b) for integers a >= 0 and any integer b.
CeilDivAny(a, b) ==
    IF b > 0 THEN CeilDiv(a, b)
    ELSE IF b < 0 THEN 0 - (a \div (0 - b))
    ELSE 0   \* callers decide the division by zero themselves

(***************************************************************************)
(* Screenshot.prototype._validateArea                                      *)
(***************************************************************************)
ValidateAreaXY(a, d) ==
    LET x1 == IF a.x < 0 THEN 0 ELSE a.x
        x2 == IF x1 >= d.width THEN d.width - 1 ELSE x1
        y1 == IF a.y < 0 THEN 0 ELSE a.y
        y2 == IF y1 >= d.height THEN d.height - 1 ELSE y1
    IN  [a EXCEPT !.x = x2, !.y = y2]

\* a validation that corrects the size before it corrects the corner
ValidateSizeFirst(a, d) ==
    [x      |-> ValidateAreaXY(a, d).x,
     y      |-> ValidateAreaXY(a, d).y,
     width  |-> IF a.x + a.width > d.width THEN d.width - a.x ELSE a.width,
     height |-> IF a.y + a.height > d.height THEN d.height - a.y ELSE a.height]

_validateArea(a, d) ==
    LET b == ValidateAreaXY(a, d)
    IN  [x      |-> b.x,
         y      |-> b.y,
         width  |-> IF b.x + b.width > d.width THEN d.width - b.x ELSE b.width,
         height |-> IF b.y + b.height > d.height THEN d.height - b.y ELSE b.height]

\* The two throws at the head of _validateArea.
AreaIsNegative(a) == a.width < 0 \/ a.height < 0

(***************************************************************************)
(* Screenshot.prototype._gatherViewPortSections                            *)
(***************************************************************************)
\* Math.ceil(len / size) as the loops of the planner see it (len >= 0).
CellCount(len, size) ==
    IF size = 0 THEN (IF len > 0 THEN Infinity ELSE NaN)
    ELSE Num(CeilDivAny(len, size))

\* The padding-adjusted size of one raw screenshot.
ViewPortWidth(pad, init)  == init.viewPort.width - pad.left - pad.right
ViewPortHeight(pad, init) == init.viewPort.height - pad.top - pad.bottom

\* "for (y = 0; y < rows; y++) for (x = 0; x < columns; x++)" never ends when
\* rows is Infinity, or when a row is entered and columns is Infinity.
ViewPortLoopDiverges(rows, columns) ==
    \/ rows.kind = "Infinity"
    \/ rows.kind = "num" /\ rows.n >= 1 /\ columns.kind = "Infinity"

\* _gatherViewPortSections with the edge cells left unclipped (every cell gets
\* the full view-port size).
GatherViewPortSectionsUnclipped(section, pad, init, index) ==
    LET viewPortWidth  == ViewPortWidth(pad, init)
        viewPortHeight == ViewPortHeight(pad, init)
        columns == CellCount(section.width, viewPortWidth)
        rows    == CellCount(section.height, viewPortHeight)
        nc == IF columns.kind = "num" /\ columns.n > 0 THEN columns.n ELSE 0
        nr == IF rows.kind = "num" /\ rows.n > 0 THEN rows.n ELSE 0
    IN  [diverges  |-> ViewPortLoopDiverges(rows, columns),
         viewPorts |->
            IF ViewPortLoopDiverges(rows, columns) THEN << >>
            ELSE [k \in 1..(nr * nc) |->
                    [x      |-> ((k - 1) % nc) * viewPortWidth,
                     y      |-> ((k - 1) \div nc) * viewPortHeight,
                     width  |-> viewPortWidth,
                     height |-> viewPortHeight,
                     index  |-> index + (k - 1)]]]

_gatherViewPortSections(section, pad, init, index) ==
    LET viewPortWidth  == ViewPortWidth(pad, init)
        viewPortHeight == ViewPortHeight(pad, init)
        columns == CellCount(section.width, viewPortWidth)
        rows    == CellCount(section.height, viewPortHeight)
        nc == IF columns.kind = "num" /\ columns.n > 0 THEN columns.n ELSE 0
        nr == IF rows.kind = "num" /\ rows.n > 0 THEN rows.n ELSE 0
    IN  [diverges  |-> ViewPortLoopDiverges(rows, columns),
         viewPorts |->
            IF ViewPortLoopDiverges(rows, columns) THEN << >>
            ELSE [k \in 1..(nr * nc) |->
                    LET x == (k - 1) % nc
                        y == (k - 1) \div nc
                        offsetX == x * viewPortWidth
                        offsetY == y * viewPortHeight
                    IN  [x      |-> offsetX,
                         y      |-> offsetY,
                         width  |-> Min(viewPortWidth, section.width - offsetX),
                         height |-> Min(viewPortHeight, section.height - offsetY),
                         index  |-> index + (k - 1)]]]

(***************************************************************************)
(* Screenshot.prototype._gatherSections                                    *)
(* res is the maxImageResolution argument: the rational res.num / res.den  *)
(* (_takeScreenshot passes the configured value times 1/devicePixelRatio). *)
(***************************************************************************)
\* sectionHeight after lines 527-536.
SectionHeight(a, pad, init, res, stitching) ==
    LET documentWidth  == init.document.width - a.x
        viewPortHeight == ViewPortHeight(pad, init)
        sectionHeight  == res.num \div (res.den * documentWidth)
    IN  IF ~stitching THEN Num(sectionHeight)
        ELSE IF viewPortHeight = 0 THEN NaN
        ELSE Num(FloorDiv(sectionHeight, viewPortHeight) * viewPortHeight)

\* sectionCount = Math.ceil(area.height / sectionHeight), line 538.
SectionCount(a, sectionHeight) ==
    IF sectionHeight.kind = "NaN" THEN NaN
    ELSE IF sectionHeight.n = 0 THEN (IF a.height > 0 THEN Infinity ELSE NaN)
    ELSE Num(CeilDiv(a.height, sectionHeight.n))

\* One iteration of the loop of lines 540-572, without its view-ports.
SectionAt(a, sectionHeight, sectionCount, i) ==
    LET yOffset == i * sectionHeight
    IN  [shift  |-> (sectionCount # 1),
         x      |-> a.x,
         y      |-> a.y + yOffset,
         width  |-> a.width,
         height |-> Min(sectionHeight, a.height - yOffset)]

\* The view-ports of a section, lines 552-569.
\* a planner that cuts every section into view-ports, stitching or not
ViewPortsAlways(section, pad, init, index, stitching) ==
    _gatherViewPortSections(section, pad, init, index)

SectionViewPorts(section, pad, init, index, stitching) ==
    IF stitching THEN _gatherViewPortSections(section, pad, init, index)
    ELSE [diverges  |-> FALSE,
          viewPorts |-> << [x |-> 0, y |-> 0, width |-> section.width,
                            height |-> section.height, index |-> index] >>]

RECURSIVE GatherLoop(_, _, _, _, _, _, _, _, _)
GatherLoop(a, pad, init, stitching, sectionHeight, sectionCount, i, index, acc) ==
    IF i >= sectionCount THEN [outcome |-> "returned", sections |-> acc]
    ELSE LET section == SectionAt(a, sectionHeight, sectionCount, i)
             vps     == SectionViewPorts(section, pad, init, index, stitching)
         IN  IF vps.diverges THEN [outcome |-> "diverges", sections |-> << >>]
             ELSE GatherLoop(a, pad, init, stitching, sectionHeight, sectionCount,
                             i + 1, index + Len(vps.viewPorts),
                             Append(acc, [shift     |-> section.shift,
                                          x         |-> section.x,
                                          y         |-> section.y,
                                          width     |-> section.width,
                                          height    |-> section.height,
                                          viewPorts |-> vps.viewPorts]))

\* outcome "diverges": the loop never ends (sectionCount or a view-port count
\* is Infinity), so nothing is returned.
_gatherSections(a, pad, init, res, stitching) ==
    LET sectionHeight == SectionHeight(a, pad, init, res, stitching)
        sectionCount  == SectionCount(a, sectionHeight)
    IN  IF sectionCount.kind = "Infinity"
            THEN [outcome |-> "diverges", sections |-> << >>]
        ELSE IF sectionCount.kind = "NaN"
            THEN [outcome |-> "returned", sections |-> << >>]
        ELSE GatherLoop(a, pad, init, stitching, sectionHeight.n, sectionCount.n,
                        0, 0, << >>)


(***************************************************************************)
(* Idle values of the three components.                                    *)
(***************************************************************************)
NoArea == [x |-> 0, y |-> 0, width |-> 0, height |-> 0]
NoComposite == [width |-> 0, height |-> 0, copies |-> << >>]

PlanIdle ==
    /\ pc = "idle"
    /\ initData = [document |-> [width |-> 1, height |-> 1],
                   viewPort |-> [x |-> 0, y |-> 0, width |-> 1, height |-> 1]]
    /\ padding = [top |-> 0, bottom |-> 0, left |-> 0, right |-> 0]
    /\ maxImageResolution = 1
    /\ devicePixelRatio = 1
    /\ needsStitching = FALSE
    /\ area = NoArea
    /\ sections = << >>
    /\ composite = NoComposite

CaptureIdle ==
    /\ options = [given |-> FALSE, eachFn |-> FALSE, completeFn |-> FALSE]
    /\ cursor = 0
    /\ step = "idle"
    /\ log = << >>
    /\ images = {}
    /\ inflight = {}

CompareIdle ==
    /\ config = [approvedPath |-> "", buildPath |-> "", diffPath |-> "",
                 autoApprove |-> FALSE, outputOnSuccess |-> "undefined",
                 failOnDifference |-> "undefined", tolerant |-> FALSE]
    /\ files = {}
    /\ callOptions = [id |-> 0]
    /\ queue = << >>
    /\ outcome = [kind |-> "none", value |-> "", error |-> ""]
    /\ events = << >>
    /\ calls = 0

HelperIdle ==
    /\ session = [pc |-> "idle"]
    /\ waiter = [pc |-> "idle"]
    /\ validation = [pc |-> "idle"]
    /\ deferred = [pc |-> "idle"]
    /\ document = [pc |-> "idle"]

(***************************************************************************)
(* The planner: the synchronous block of Screenshot._takeScreenshot that   *)
(* runs once screenshotScripts.init has answered.                          *)
(***************************************************************************)
DocSizes      == 1..MaxDoc
ViewPortSizes == 1..MaxVp
Paddings      == 0..MaxPad
Resolutions   == 1..MaxRes
AreaOffsets   == 0..1               \* x, y handed to areaScreenshot
AreaSizes     == (0 - 1)..MaxDoc    \* width, height handed to areaScreenshot

\* maxImageResolution *= (1 / devicePixelRatio), line 348.
ScaledResolution(maxRes, dpr) == [num |-> maxRes, den |-> dpr]

\* initData.document.width > maxImageResolution, line 353.
DocumentTooWide(init, res) == init.document.width * res.den > res.num

\* The area callbacks of documentScreenshot, viewPortScreenshot, areaScreenshot.
documentScreenshot(init) ==
    [x |-> 0, y |-> 0, width |-> init.document.width, height |-> init.document.height]

viewPortScreenshot(init) ==
    [x |-> init.viewPort.x, y |-> init.viewPort.y,
     width |-> init.viewPort.width, height |-> init.viewPort.height]

\* "x || 0", "width || initData.document.width - localX"
areaScreenshot(x, y, width, height, init) ==
    LET localX == x
        localY == y
    IN  [x |-> localX, y |-> localY,
         width  |-> IF width = 0 THEN init.document.width - localX ELSE width,
         height |-> IF height = 0 THEN init.document.height - localY ELSE height]

RequestedAreas(init) ==
    {documentScreenshot(init), viewPortScreenshot(init)}
    \cup {areaScreenshot(x, y, w, h, init) :
            x \in AreaOffsets, y \in AreaOffsets, w \in AreaSizes, h \in AreaSizes}

PlanInit ==
    /\ pc = "init"
    /\ initData \in [document : [width : DocSizes, height : DocSizes],
                     viewPort : [x : {0}, y : {0},
                                 width : ViewPortSizes, height : ViewPortSizes]]
    /\ padding \in [top : Paddings, bottom : {0}, left : Paddings, right : {0}]
    /\ maxImageResolution \in Resolutions
    /\ devicePixelRatio \in Ratios
    /\ needsStitching \in BOOLEAN
    /\ area = NoArea
    /\ sections = << >>
    /\ composite = NoComposite

\* Lines 342-365 of _takeScreenshot for the area callback's result a.
PlanFor(a) ==
    LET res == ScaledResolution(maxImageResolution, devicePixelRatio)
    IN  IF DocumentTooWide(initData, res)
            THEN /\ pc' = "configError"
                 /\ UNCHANGED <<area, sections>>
        ELSE IF AreaIsNegative(a)
            THEN /\ pc' = "areaError"
                 /\ UNCHANGED <<area, sections>>
        ELSE LET valid == _validateArea(a, initData.document)
                 plan  == _gatherSections(valid, padding, initData, res, needsStitching)
             IN  /\ area' = valid
                 /\ sections' = plan.sections
                 /\ pc' = IF plan.outcome = "returned" THEN "planned" ELSE "diverged"

Plan ==
    /\ pc = "init"
    /\ \E a \in RequestedAreas(initData) : PlanFor(a)
    /\ UNCHANGED <<initData, padding, maxImageResolution, devicePixelRatio,
                   needsStitching, composite>>
    /\ UNCHANGED <<captureVars, compareVars, helperVars>>

PlanNext == Plan

InitPlan == PlanInit /\ mode = "sync" /\ CaptureIdle /\ CompareIdle /\ HelperIdle

SpecPlan == InitPlan /\ [][PlanNext]_vars


(***************************************************************************)
(* Claims about the planner (checked under SpecPlan).                      *)
(***************************************************************************)
RECURSIVE SumHeights(_, _)
SumHeights(secs, n) == IF n = 0 THEN 0 ELSE SumHeights(secs, n - 1) + secs[n].height

\* The (y, height) ranges of secs, in order, are non-empty, start at a.y, each
\* begin where the previous one ends, and end at a.y + a.height.
SectionsCover(secs, a) ==
    /\ \A i \in 1..Len(secs) :
          /\ secs[i].height > 0
          /\ secs[i].y = a.y + SumHeights(secs, i - 1)
    /\ SumHeights(secs, Len(secs)) = a.height

\* C1: every plan returned by _gatherSections for a validated area and a
\* maxImageResolution that passed the document-width check has its sections in
\* top-to-bottom order, contiguous, non-overlapping, and covering exactly
\* [area.y, area.y + area.height), with and without stitching.
C1_SectionsCoverArea ==
    pc = "planned" => SectionsCover(sections, area)

\* The view-ports vps tile a w x h rectangle: each lies inside it and is not
\* empty, and every pixel of the rectangle is in exactly one view-port.
Tiles(vps, w, h) ==
    /\ \A k \in 1..Len(vps) :
          /\ vps[k].x >= 0 /\ vps[k].y >= 0
          /\ vps[k].width > 0 /\ vps[k].height > 0
          /\ vps[k].x + vps[k].width <= w
          /\ vps[k].y + vps[k].height <= h
    /\ \A px \in 0..(w - 1), py \in 0..(h - 1) :
          Cardinality({k \in 1..Len(vps) :
                         /\ vps[k].x <= px /\ px < vps[k].x + vps[k].width
                         /\ vps[k].y <= py /\ py < vps[k].y + vps[k].height}) = 1

\* Row-major order inside a section: a later view-port is further down, or in
\* the same row and further right.
RowMajor(vps) ==
    \A j, k \in 1..Len(vps) :
        j < k => \/ vps[j].y < vps[k].y
                 \/ vps[j].y = vps[k].y /\ vps[j].x < vps[k].x

RECURSIVE ViewPortsBefore(_, _)
ViewPortsBefore(secs, i) ==
    IF i <= 1 THEN 0 ELSE ViewPortsBefore(secs, i - 1) + Len(secs[i - 1].viewPorts)

\* The index values over all sections are 0, 1, 2, ... in section order and,
\* inside a section, in the order of its list.
IndexesAreSequence(secs) ==
    \A i \in 1..Len(secs) : \A k \in 1..Len(secs[i].viewPorts) :
        secs[i].viewPorts[k].index = ViewPortsBefore(secs, i) + (k - 1)

\* C2: with stitching and a padding-adjusted view-port of at least 1 x 1, the
\* view-ports of every section tile the section exactly, in row-major order, and
\* the index values of the plan are 0, 1, 2, ... without a gap.
C2_ViewPortsTileSections ==
    (/\ pc = "planned"
     /\ needsStitching
     /\ ViewPortWidth(padding, initData) >= 1
     /\ ViewPortHeight(padding, initData) >= 1)
    => /\ \A i \in 1..Len(sections) :
             /\ Tiles(sections[i].viewPorts, sections[i].width, sections[i].height)
             /\ RowMajor(sections[i].viewPorts)
       /\ IndexesAreSequence(sections)

\* A plan with stitching that has a section of several rows and columns with
\* clipped edge cells, and a second section.
C2_Witness ==
    /\ pc = "planned"
    /\ needsStitching
    /\ ViewPortWidth(padding, initData) >= 1
    /\ ViewPortHeight(padding, initData) >= 1
    /\ Len(sections) >= 2
    /\ Len(sections[1].viewPorts) >= 2
    /\ \E k \in 1..Len(sections[1].viewPorts) :
          sections[1].viewPorts[k].width < ViewPortWidth(padding, initData)
    /\ sections[2].viewPorts[1].index = Len(sections[1].viewPorts)

\* C3: every planned section has width * height <= the maxImageResolution value
\* handed to the planner (the configured value times 1 / devicePixelRatio).
C3_SectionWithinResolution ==
    pc = "planned" =>
        \A i \in 1..Len(sections) :
            sections[i].width * sections[i].height * devicePixelRatio
                <= maxImageResolution

\* C4: every planned section, scaled by the device-pixel-ratio in both
\* directions, has at most the configured maxImageResolution pixels.
C4_CompositeWithinResolution ==
    pc = "planned" =>
        \A i \in 1..Len(sections) :
            (sections[i].width * devicePixelRatio)
                * (sections[i].height * devicePixelRatio) <= maxImageResolution


(***************************************************************************)
(* BlinkDiffComparison (lib/comparison/blinkdiff.js).                      *)
(* The file system is a set of <<path, content>> with one entry per path.  *)
(* A path is [root, title, id, suffix]: path.join(root, folderName,        *)
(* baseName + suffix + '.png') for the one browser folder of the driver.   *)
(***************************************************************************)
Titles == {"home", "cart"}
Images == {"imgA", "imgB"}
OptionIds == {0, 2}     \* options.id: 0 stands for an absent id

Exists(fs, path)  == \E f \in fs : f[1] = path
Content(fs, path) == IF Exists(fs, path) THEN (CHOOSE f \in fs : f[1] = path)[2]
                     ELSE "none"
\* _saveBlob: mkdirp and fs.writeFileSync
_saveBlob(fs, path, blob) == {f \in fs : f[1] # path} \cup {<<path, blob>>}

\* a comparison that keeps the diff of every passing comparison
OutputOnSuccessAlways(cfg) == TRUE

shouldOutputOnSuccess(cfg) ==
    IF cfg.outputOnSuccess = "undefined" THEN TRUE ELSE cfg.outputOnSuccess = "true"

\* a comparison that never raises on a difference
FailOnDifferenceNever(cfg) == FALSE

shouldFailOnDifference(cfg) ==
    IF cfg.failOnDifference = "undefined" THEN TRUE ELSE cfg.failOnDifference = "true"

\* a comparison that never approves on its own
AutoApproveNever(cfg) == FALSE

shouldAutoApprove(cfg) == cfg.autoApprove

getApprovedPath(cfg) == IF cfg.approvedPath = "" THEN "cwd" ELSE cfg.approvedPath
getBuildPath(cfg)    == IF cfg.buildPath = "" THEN getApprovedPath(cfg) ELSE cfg.buildPath
getDiffPath(cfg)     == IF cfg.diffPath = "" THEN getBuildPath(cfg) ELSE cfg.diffPath

_needsApprovedSuffix(cfg) ==
    \/ getApprovedPath(cfg) = getBuildPath(cfg)
    \/ getApprovedPath(cfg) = getDiffPath(cfg)

_needsBuildSuffix(cfg) ==
    \/ getBuildPath(cfg) = getApprovedPath(cfg)
    \/ getBuildPath(cfg) = getDiffPath(cfg)

_needsDiffSuffix(cfg) ==
    \/ getDiffPath(cfg) = getBuildPath(cfg)
    \/ getDiffPath(cfg) = getApprovedPath(cfg)

\* "id || 1"
RecordId(id) == IF id = 0 THEN 1 ELSE id

\* path.join(root, ...) normalises the root it is given: a trailing separator
\* is dropped, so "shots/" and "shots" name the same folder.
PathJoin(root) == IF root = "shots/" THEN "shots" ELSE root

_getApprovedImagePath(cfg, title, id) ==
    [root |-> PathJoin(getApprovedPath(cfg)), title |-> title, id |-> RecordId(id),
     suffix |-> IF _needsApprovedSuffix(cfg) THEN "_approved" ELSE ""]

_getBuildImagePath(cfg, title, id) ==
    [root |-> PathJoin(getBuildPath(cfg)), title |-> title, id |-> RecordId(id),
     suffix |-> IF _needsBuildSuffix(cfg) THEN "_build" ELSE ""]

_getDiffImagePath(cfg, title, id) ==
    [root |-> PathJoin(getDiffPath(cfg)), title |-> title, id |-> RecordId(id),
     suffix |-> IF _needsDiffSuffix(cfg) THEN "_diff" ELSE ""]

\* instance.hasPassed(instance.runSync().code): identical images pass; two
\* different images pass when the configured thresholds tolerate the difference.
hasPassed(cfg, imageA, imageB) == imageA = imageB \/ cfg.tolerant

\* BlinkDiffComparison.prototype.compare on file system fs.  The result names
\* the file system left behind, the writes in order, and how the call ended:
\* verdict "null", "true" or "false" (utils.resolve of it), or "threw" with the
\* title named in the error message.  diskOk = FALSE is a disk that refuses the
\* first write of the call: fs.writeFileSync throws in _saveBlob, line 361.
BlinkDiffCompare(fs, cfg, title, imageBlob, id, diskOk) ==
    LET approvedPath == _getApprovedImagePath(cfg, title, id)
        buildPath    == _getBuildImagePath(cfg, title, id)
        diffPath     == _getDiffImagePath(cfg, title, id)
        fs1          == _saveBlob(fs, buildPath, imageBlob)
        base         == [title |-> title, id |-> RecordId(id), image |-> imageBlob,
                         baseline |-> Content(fs1, approvedPath)]
    IN  IF ~diskOk
        THEN [files |-> fs, writes |-> << >>,
              verdict |-> "threw", message |-> "EIO", info |-> base]
        ELSE IF ~Exists(fs1, approvedPath)
        THEN IF shouldAutoApprove(cfg)
             THEN [files   |-> _saveBlob(fs1, approvedPath, imageBlob),
                   writes  |-> <<"build", "approved">>,
                   verdict |-> "null", message |-> "", info |-> base]
             ELSE [files   |-> fs1,
                   writes  |-> <<"build">>,
                   verdict |-> "null", message |-> "", info |-> base]
        ELSE LET passed  == hasPassed(cfg, Content(fs1, approvedPath), imageBlob)
                 output  == ~passed \/ (passed /\ shouldOutputOnSuccess(cfg))
                 fs2     == IF output THEN _saveBlob(fs1, diffPath, "diff") ELSE fs1
                 writes  == IF output THEN <<"build", "diff">> ELSE <<"build">>
             IN  IF ~passed /\ shouldFailOnDifference(cfg)
                 THEN [files |-> fs2, writes |-> writes,
                       verdict |-> "threw", message |-> title, info |-> base]
                 ELSE [files |-> fs2, writes |-> writes,
                       verdict |-> IF passed THEN "true" ELSE "false",
                       message |-> "", info |-> base]

\* What one tool invocation leaves in the log of the compare call.
Event(pos, r) ==
    [pos |-> pos, title |-> r.info.title, id |-> r.info.id, image |-> r.info.image,
     baseline |-> r.info.baseline, writes |-> r.writes,
     verdict |-> r.verdict, message |-> r.message]

(***************************************************************************)
(* Comparison (lib/helpers/comparison.js).  when(value, cb) of lib/when.js *)
(* calls cb at once on a plain value and returns its result; on a promise  *)
(* it returns value.then(cb).  utils.resolve gives the plain value in sync *)
(* mode and Promise.resolve(value) in async mode.                          *)
(***************************************************************************)
Returned(v) == [kind |-> "returned", value |-> v, error |-> ""]
Threw(msg)  == [kind |-> "threw", value |-> "", error |-> msg]
Pending     == [kind |-> "pending", value |-> "", error |-> ""]

\* The plugin lists of a call: options.compare, or _getCompareList().
ToolLists == UNION {[1..n -> {"blinkdiff"}] : n \in 1..MaxTools}

\* Comparison.prototype._compare in sync mode: every when() runs its callback
\* at once, so the recursion runs to its end or to the first throw.  The
\* callback returns nothing, and so does the else branch: the caller gets
\* undefined.  n is the number of plugins still in the list; the disk refuses
\* the write of invocation number failAt (0: of none).
RECURSIVE CompareSync(_, _, _, _, _, _, _, _)
CompareSync(fs, cfg, title, imageBlob, id, n, failAt, done) ==
    IF n = 0 THEN [files |-> fs, events |-> done, outcome |-> Returned("undefined")]
    ELSE LET r == BlinkDiffCompare(fs, cfg, title, imageBlob, id,
                                   failAt # Len(done) + 1)
             e == Event(Len(done) + 1, r)
         IN  IF r.verdict = "threw"
             THEN [files |-> r.files, events |-> Append(done, e),
                   outcome |-> Threw(r.message)]
             \* "delete options.id" of the first plugin holds for the later ones
             ELSE CompareSync(r.files, cfg, title, imageBlob, 0, n - 1, failAt,
                              Append(done, e))

CompareInit ==
    /\ mode \in {"sync", "async"}
    /\ config \in [approvedPath : {""}, buildPath : {"", "b"}, diffPath : {""},
                   autoApprove : BOOLEAN,
                   outputOnSuccess : {"undefined", "true", "false"},
                   failOnDifference : {"undefined", "true", "false"},
                   tolerant : BOOLEAN]
    \* an earlier run left an approved image for "home", id 1, and none for "cart"
    /\ files = {<<_getApprovedImagePath(config, "home", 0), "imgA">>}
    /\ callOptions = [id |-> 0]
    /\ queue = << >>
    /\ outcome = [kind |-> "none", value |-> "", error |-> ""]
    /\ events = << >>
    /\ calls = 0

\* Comparison.prototype.compare(title, imageBlob, options) up to its return.
\* In sync mode that is the whole comparison.  In async mode the first plugin
\* runs at once; its promise p1 is resolved, and the caller holds p1.then(cb1),
\* whose callback is a job of its own.
CompareCall(title, imageBlob, id, tools, failAt) ==
    /\ calls < MaxCalls
    /\ queue = << >>
    /\ outcome.kind # "pending"
    /\ calls' = calls + 1
    /\ callOptions' = [id |-> 0]
    /\ IF mode = "sync"
       THEN LET r == CompareSync(files, config, title, imageBlob, id, Len(tools),
                                 failAt, << >>)
            IN  /\ files' = r.files
                /\ events' = r.events
                /\ outcome' = r.outcome
                /\ queue' = << >>
       ELSE LET r == BlinkDiffCompare(files, config, title, imageBlob, id, failAt # 1)
            IN  /\ files' = r.files
                /\ events' = << Event(1, r) >>
                /\ IF r.verdict = "threw"
                   THEN /\ outcome' = Threw(r.message)
                        /\ queue' = << >>
                   ELSE /\ outcome' = Pending
                        /\ queue' = << [title |-> title, image |-> imageBlob,
                                        plugins |-> Len(tools), failAt |-> failAt,
                                        first |-> TRUE] >>
    /\ UNCHANGED <<config, mode>>

Compare ==
    /\ \E title \in Titles, imageBlob \in Images, tools \in ToolLists :
          \E id \in OptionIds \cup {callOptions.id}, failAt \in 0..Len(tools) :
              CompareCall(title, imageBlob, id, tools, failAt)
    /\ UNCHANGED <<planVars, options, cursor, step, log, images, inflight, helperVars>>

\* A job of async mode: the callback of _compare, lines 147-152.  It shifts the
\* plugin list and calls _compare again without returning its promise: a throw
\* inside this callback rejects the promise the callback belongs to, which is
\* the caller's only for the first callback.
Callback ==
    /\ queue # << >>
    /\ LET job  == Head(queue)
           left == job.plugins - 1
       IN  IF left = 0
           THEN /\ queue' = Tail(queue)
                /\ outcome' = IF job.first THEN Returned("undefined") ELSE outcome
                /\ UNCHANGED <<files, events>>
           ELSE LET r == BlinkDiffCompare(files, config, job.title, job.image, 0,
                                          job.failAt # Len(events) + 1)
                IN  /\ files' = r.files
                    /\ events' = Append(events, Event(Len(events) + 1, r))
                    /\ IF r.verdict = "threw"
                       THEN /\ queue' = Tail(queue)
                            /\ outcome' = IF job.first THEN Threw(r.message) ELSE outcome
                       ELSE /\ queue' = Append(Tail(queue),
                                               [job EXCEPT !.plugins = left,
                                                           !.first = FALSE])
                            /\ outcome' = IF job.first THEN Returned("undefined")
                                          ELSE outcome
    /\ UNCHANGED <<config, mode, callOptions, calls>>
    /\ UNCHANGED <<planVars, options, cursor, step, log, images, inflight, helperVars>>

CompareNext == Compare \/ Callback

InitCompare == CompareInit /\ PlanIdle /\ CaptureIdle /\ HelperIdle

SpecCompare == InitCompare /\ [][CompareNext]_vars


(***************************************************************************)
(* Claims about the comparison engine.  Every plugin invocation of the     *)
(* current compare call is an entry of events; a comparison that the disk  *)
(* refused to start carries the message "EIO".                             *)
(***************************************************************************)
Invocations == {events[k] : k \in 1..Len(events)}
Started     == {e \in Invocations : e.message # "EIO"}
Wrote(e, role) == \E k \in 1..Len(e.writes) : e.writes[k] = role
\* the diff accepts the current image against the baseline it found
Accepted(e) == e.image = e.baseline \/ config.tolerant
ApprovedFileOf(e) == _getApprovedImagePath(config, e.title, e.id)
DiffFileOf(e)     == _getDiffImagePath(config, e.title, e.id)

\* C5: BlinkDiffComparison.compare that finds no approved baseline for the
\* title/id returns null; with autoApprove the approved file is created with
\* the content of the current image, without autoApprove no approved file is
\* created and the build artifact is the only file written.
C5_NoBaseline ==
    \A e \in Started :
        e.baseline = "none" =>
            /\ e.verdict = "null"
            /\ IF config.autoApprove
               THEN /\ e.writes = <<"build", "approved">>
                    /\ Content(files, ApprovedFileOf(e)) = e.image
               ELSE /\ e.writes = <<"build">>
                    /\ ~Exists(files, ApprovedFileOf(e))

C5_Witness ==
    \E e \in Started :
        /\ e.baseline = "none"
        /\ config.autoApprove
        /\ Content(files, ApprovedFileOf(e)) = e.image

\* C6: BlinkDiffComparison.compare that finds an approved baseline and a
\* current image the diff accepts returns true, and it writes the diff artifact
\* in that call exactly when outputOnSuccess is in effect (true, or unset and
\* so true by default).
C6_Accepted ==
    \A e \in Started :
        (e.baseline # "none" /\ Accepted(e)) =>
            /\ e.verdict = "true"
            /\ Wrote(e, "diff") <=> config.outputOnSuccess \in {"undefined", "true"}

C6_Witness ==
    \E e \in Started :
        /\ e.baseline # "none"
        /\ Accepted(e)
        /\ config.outputOnSuccess = "false"
        /\ ~Wrote(e, "diff")

\* C7: BlinkDiffComparison.compare that finds an approved baseline and a
\* current image the diff rejects writes the diff artifact first; then, with
\* failOnDifference in effect, it raises an error that names the title, and
\* with failOnDifference false it returns false without raising.
C7_Rejected ==
    \A e \in Started :
        (e.baseline # "none" /\ ~Accepted(e)) =>
            /\ e.writes = <<"build", "diff">>
            /\ Exists(files, DiffFileOf(e))
            /\ IF config.failOnDifference \in {"undefined", "true"}
               THEN e.verdict = "threw" /\ e.message = e.title
               ELSE e.verdict = "false"

C7_Witness ==
    \E e \in Started :
        /\ e.baseline # "none"
        /\ ~Accepted(e)
        /\ e.verdict = "threw"
        /\ e.message = e.title
        /\ Exists(files, DiffFileOf(e))

\* C8: Comparison.compare gives its caller the verdict of the comparison:
\* true, false, or null when there is no baseline, and never undefined.
C8_CompareReturnsVerdict ==
    outcome.kind = "returned" => outcome.value \in {"true", "false", "null"}

\* C9: Comparison.compare invokes the tools of its list one at a time in list
\* order; once a tool raises an error no later tool is invoked and that error
\* is what the caller of compare gets.
C9_SequentialFailFast ==
    /\ \A k \in 1..Len(events) : events[k].pos = k
    /\ \A k \in 1..Len(events) :
          events[k].verdict = "threw" =>
              /\ k = Len(events)
              /\ outcome = Threw(events[k].message)

(***************************************************************************)
(* Capture of a plan: _takeSectionScreenshots and below.  Every call that  *)
(* goes to the browser is one step and one entry of log; in sync mode the  *)
(* step blocks, in async mode its promise resolves before the next step.   *)
(***************************************************************************)
SettleDelay == 100

\* utils.map over the sections and, inside, over the view-ports of each: the
\* view-ports in the order they are captured, each with its section.
RECURSIVE ViewPortList(_)
ViewPortList(plan) ==
    IF plan = << >> THEN << >>
    ELSE [k \in 1..Len(Head(plan).viewPorts) |->
             [section |-> Head(plan), viewPort |-> Head(plan).viewPorts[k]]]
         \o ViewPortList(Tail(plan))

\* The arguments of the documentOffset script; height 0 stands for null.
DocumentOffsetArgs(section, viewPort) ==
    << section.x + viewPort.x,
       section.y + viewPort.y,
       IF section.shift THEN section.height ELSE 0 >>

Call(op, index, args) == [op |-> op, index |-> index, args |-> args]

\* a capture that runs eachFn before the settle delay
EachFnBeforeDelay(s) ==
    CASE s = "offset" -> "each"
      [] s = "each"   -> "sleep"
      [] s = "sleep"  -> "shot"

\* a capture that goes from the settle delay to the raw screenshot
SkipEachFn(s) ==
    CASE s = "offset" -> "sleep"
      [] s = "sleep"  -> "shot"
      [] s = "each"   -> "shot"

\* The nesting of the callbacks of _takeViewPortScreenshot, lines 693-705.
NextStep(s) ==
    CASE s = "offset" -> "sleep"
      [] s = "sleep"  -> "each"
      [] s = "each"   -> "shot"

CaptureOptions ==
    {[given |-> FALSE, eachFn |-> FALSE, completeFn |-> FALSE]}
        \cup [given : {TRUE}, eachFn : BOOLEAN, completeFn : BOOLEAN]

\* a when that runs its callback without waiting for the promise
CallbackAtOnce(pending) == TRUE

\* when(val, cb): cb runs once val is resolved, at once when val is no promise.
\* pending are the calls the value handed to when still waits for.
WhenReady(pending) == pending = {}

\* documentScreenshot(options) at the entry of _takeScreenshot, with the two
\* session caches filled: a document one or two pixels wide, captured whole.
CaptureInit ==
    /\ mode \in {"sync", "async"}
    /\ pc = "init"
    /\ initData \in [document : [width : {1, 2}, height : DocSizes],
                     viewPort : [x : {0}, y : {0},
                                 width : {1}, height : ViewPortSizes]]
    /\ padding = [top |-> 0, bottom |-> 0, left |-> 0, right |-> 0]
    /\ maxImageResolution \in Resolutions
    /\ devicePixelRatio = 1
    /\ needsStitching \in BOOLEAN
    /\ LET res == ScaledResolution(maxImageResolution, devicePixelRatio)
           a   == _validateArea(documentScreenshot(initData), initData.document)
       IN  \/ DocumentTooWide(initData, res)
           \/ _gatherSections(a, padding, initData, res, needsStitching).outcome
                 = "returned"
    /\ area = NoArea
    /\ sections = << >>
    /\ composite = NoComposite
    /\ options \in CaptureOptions
    /\ cursor = 1
    /\ step = "init"
    /\ log = << >>
    /\ images = {}
    /\ inflight = {}

Current == ViewPortList(sections)[cursor]

\* A browser call is sent: one more entry of log, not yet resolved.
Send(call) ==
    /\ log' = Append(log, call)
    /\ inflight' = inflight \cup {Len(log) + 1}

\* _execute(screenshotScripts.init), line 341.
InitScript ==
    /\ step = "init"
    /\ Send(Call("init", 0, << >>))
    /\ step' = "plan"
    /\ UNCHANGED <<cursor, images>>
    /\ UNCHANGED <<planVars, mode, options, compareVars, helperVars>>

\* The callback of the init script up to _takeSectionScreenshots, lines
\* 342-367: the check of the document width, the area, the plan.
PlanCapture ==
    /\ step = "plan"
    /\ WhenReady(inflight)
    /\ PlanFor(documentScreenshot(initData))
    /\ step' = IF pc' # "planned" THEN "failed"
               ELSE IF ViewPortList(sections') = << >> THEN "complete"
               ELSE "offset"
    /\ UNCHANGED <<initData, padding, maxImageResolution, devicePixelRatio,
                   needsStitching, composite>>
    /\ UNCHANGED <<cursor, images, log, inflight>>
    /\ UNCHANGED <<mode, options, compareVars, helperVars>>

\* _execute(screenshotScripts.documentOffset, [offsetX, offsetY, sectionHeight, initData])
DocumentOffset ==
    /\ step = "offset"
    /\ WhenReady(inflight)
    /\ Send(Call("documentOffset", Current.viewPort.index,
                 DocumentOffsetArgs(Current.section, Current.viewPort)))
    /\ step' = NextStep("offset")
    /\ UNCHANGED <<cursor, images>>
    /\ UNCHANGED <<planVars, mode, options, compareVars, helperVars>>

\* utils.sleep(100): a timer, no call to the browser.
Sleep ==
    /\ step = "sleep"
    /\ WhenReady(inflight)
    /\ log' = Append(log, Call("sleep", Current.viewPort.index, <<SettleDelay>>))
    /\ step' = NextStep("sleep")
    /\ UNCHANGED <<cursor, images, inflight>>
    /\ UNCHANGED <<planVars, mode, options, compareVars, helperVars>>

\* _execute(options.eachFn, [viewPortIndex]): a TypeError when options was not
\* given, no call to the browser when there is no eachFn.
EachFn ==
    /\ step = "each"
    /\ WhenReady(inflight)
    /\ IF ~options.given
       THEN /\ step' = "failed"
            /\ UNCHANGED <<log, inflight>>
       ELSE IF options.eachFn
       THEN /\ Send(Call("eachFn", Current.viewPort.index,
                         <<Current.viewPort.index>>))
            /\ step' = NextStep("each")
       ELSE /\ step' = NextStep("each")
            /\ UNCHANGED <<log, inflight>>
    /\ UNCHANGED <<cursor, images>>
    /\ UNCHANGED <<planVars, mode, options, compareVars, helperVars>>

\* takeRawScreenshot(); what comes next is the callback of utils.map: the next
\* view-port, of this section or of the next, or the end of the map.
TakeRawScreenshot ==
    /\ step = "shot"
    /\ WhenReady(inflight)
    /\ Send(Call("takeRawScreenshot", Current.viewPort.index, << >>))
    /\ IF cursor < Len(ViewPortList(sections))
       THEN cursor' = cursor + 1 /\ step' = "offset"
       ELSE cursor' = cursor /\ step' = "complete"
    /\ UNCHANGED images
    /\ UNCHANGED <<planVars, mode, options, compareVars, helperVars>>

\* _execute(options.completeFn) after the map, lines 650-652.
CompleteFn ==
    /\ step = "complete"
    /\ WhenReady(inflight)
    /\ IF ~options.given
       THEN /\ step' = "failed"
            /\ UNCHANGED <<log, inflight>>
       ELSE IF options.completeFn
       THEN /\ Send(Call("completeFn", 0, << >>))
            /\ step' = "revert"
       ELSE /\ step' = "revert"
            /\ UNCHANGED <<log, inflight>>
    /\ UNCHANGED <<cursor, images>>
    /\ UNCHANGED <<planVars, mode, options, compareVars, helperVars>>

\* _decodeImages, _stitchImages and the revert script, lines 372-377.
Revert ==
    /\ step = "revert"
    /\ WhenReady(inflight)
    /\ Send(Call("revert", 0, << >>))
    /\ step' = "return"
    /\ UNCHANGED <<cursor, images>>
    /\ UNCHANGED <<planVars, mode, options, compareVars, helperVars>>

\* "return image" in the callback of the revert script, line 378.
Return ==
    /\ step = "return"
    /\ WhenReady(inflight)
    /\ step' = "done"
    /\ UNCHANGED <<cursor, images, log, inflight>>
    /\ UNCHANGED <<planVars, mode, options, compareVars, helperVars>>

\* The browser answers a call.  A raw screenshot that arrives is stored on its
\* view-port ("viewPort.image = image"); an error rejects the whole chain of
\* callbacks, none of which has an error callback.
Resolve(p, ok) ==
    /\ p \in inflight
    /\ inflight' = inflight \ {p}
    /\ IF ok
       THEN /\ images' = IF log[p].op = "takeRawScreenshot"
                         THEN images \cup {log[p].index} ELSE images
            /\ UNCHANGED step
       ELSE /\ step' = "failed"
            /\ UNCHANGED images
    /\ UNCHANGED <<cursor, log>>
    /\ UNCHANGED <<planVars, mode, options, compareVars, helperVars>>

Answer == \E p \in inflight, ok \in BOOLEAN : Resolve(p, ok)

CaptureNext ==
    \/ InitScript
    \/ PlanCapture
    \/ DocumentOffset
    \/ Sleep
    \/ EachFn
    \/ TakeRawScreenshot
    \/ CompleteFn
    \/ Revert
    \/ Return
    \/ Answer

InitCapture == CaptureInit /\ CompareIdle /\ HelperIdle

SpecCapture == InitCapture /\ [][CaptureNext]_vars

(***************************************************************************)
(* Claims about the capture of one view-port.                              *)
(***************************************************************************)
RawScreenshots == {p \in 1..Len(log) : log[p].op = "takeRawScreenshot"}
PlannedViewPort(index) ==
    CHOOSE e \in {ViewPortList(sections)[c] : c \in 1..Len(ViewPortList(sections))} :
        e.viewPort.index = index
\* the raw screenshot logged at p has resolved
Resolved(p) == p \notin inflight /\ (p < Len(log) \/ step # "failed")

\* C10 as stated: before every raw screenshot the document is repositioned,
\* then eachFn runs, then the capture waits the settle delay; the delay lies
\* between eachFn and the raw screenshot.
C10_DelayAfterEachFn ==
    \A p \in RawScreenshots :
        /\ p > 1
        /\ log[p - 1].op = "sleep"
        /\ options.eachFn => (p > 2 /\ log[p - 2].op = "eachFn")

\* C10, amended: for every view-port of the plan the steps are, in this order:
\* reposition the document (with the section's height when section.shift, with
\* null otherwise), wait the settle delay of 100 ms, run eachFn with the
\* view-port's index when there is one, take the raw screenshot and store it on
\* the view-port.  The delay lies between the repositioning and eachFn.
C10_DelayBeforeEachFn ==
    /\ \A p \in RawScreenshots :
          LET i  == log[p].index
              vp == PlannedViewPort(i)
              k  == IF options.eachFn THEN 1 ELSE 0
          IN  /\ p > 2 + k
              /\ options.eachFn => log[p - 1] = Call("eachFn", i, <<i>>)
              /\ log[p - 1 - k] = Call("sleep", i, <<100>>)
              /\ log[p - 2 - k] = Call("documentOffset", i,
                                       << vp.section.x + vp.viewPort.x,
                                          vp.section.y + vp.viewPort.y,
                                          IF vp.section.shift THEN vp.section.height
                                          ELSE 0 >>)
              /\ Resolved(p) => i \in images
    /\ step = "done" =>
          \A c \in 1..Len(ViewPortList(sections)) :
              \E p \in RawScreenshots :
                  log[p].index = ViewPortList(sections)[c].viewPort.index

C10_Witness ==
    /\ options.eachFn
    /\ step = "done"
    /\ Len(sections) > 1
    /\ \E p \in RawScreenshots :
          /\ log[p].index > 0
          /\ log[p].index \in images
          /\ log[p - 1].op = "eachFn"
          /\ PlannedViewPort(log[p].index).section.shift

ViewPortSteps ==
    {p \in 1..Len(log) :
        log[p].op \in {"documentOffset", "sleep", "eachFn", "takeRawScreenshot"}}
\* the number of the section that holds the view-port with this index
SectionNumber(index) ==
    CHOOSE k \in 1..Len(sections) :
        \E v \in 1..Len(sections[k].viewPorts) : sections[k].viewPorts[v].index = index

\* C11: in sync and in async mode the capture of a plan is strictly sequential:
\* at most one browser call is unresolved, and it is the last one sent; the
\* view-ports are captured in the order of the plan, section after section; no
\* step of a view-port is taken before the raw screenshot of the view-port
\* before it has arrived.
C11_StrictlySequential ==
    /\ Cardinality(inflight) <= 1
    /\ inflight \subseteq {Len(log)}
    /\ \A p \in RawScreenshots :
          log[p].index =
             ViewPortList(sections)[Cardinality({q \in RawScreenshots : q <= p})]
                .viewPort.index
    /\ \A p, q \in ViewPortSteps :
          p < q => /\ log[p].index <= log[q].index
                   /\ SectionNumber(log[p].index) <= SectionNumber(log[q].index)
                   /\ log[p].index < log[q].index =>
                         \E r \in RawScreenshots :
                             /\ r < q
                             /\ log[r].index = log[p].index
                             /\ log[r].index \in images

C11_Witness ==
    /\ mode = "async"
    /\ Len(sections) >= 2
    /\ Cardinality(RawScreenshots) >= 3
    /\ inflight # {}
    /\ \E p, q \in RawScreenshots :
          SectionNumber(log[p].index) < SectionNumber(log[q].index)

CallsOf(op) == {p \in 1..Len(log) : log[p].op = op}

\* C12: in every capture that completes without error completeFn is executed
\* exactly once, after the raw screenshot of the last view-port of the last
\* section and never between two view-port captures, and eachFn is executed
\* exactly once for every view-port of the plan.
C12_CompleteFnOnce ==
    /\ \A p \in CallsOf("completeFn") :
          /\ \A q \in ViewPortSteps : q < p
          /\ Cardinality(RawScreenshots) = Len(ViewPortList(sections))
          /\ \A c \in 1..Len(ViewPortList(sections)) :
                ViewPortList(sections)[c].viewPort.index \in images
    /\ step = "done" =>
          /\ options.completeFn => Cardinality(CallsOf("completeFn")) = 1
          /\ options.eachFn =>
                \A c \in 1..Len(ViewPortList(sections)) :
                    Cardinality({p \in CallsOf("eachFn") :
                        log[p].index = ViewPortList(sections)[c].viewPort.index}) = 1

C12_Witness ==
    /\ step = "done"
    /\ options.completeFn
    /\ options.eachFn
    /\ Len(sections) >= 2
    /\ Cardinality(CallsOf("completeFn")) = 1
    /\ Cardinality(CallsOf("eachFn")) >= 3

\* The scripts of a capture that change the document: init translates the body
\* (scripts/screenshot.js line 63), documentOffset translates and resizes it.
MutatingScripts == {"init", "documentOffset"}
GatewayCalls == {"documentOffset", "eachFn", "takeRawScreenshot", "completeFn"}

\* The capture has come to its end: no callback is left to run.
Ended == ~ENABLED CaptureNext

\* The document is still translated or resized: a mutating script has run and
\* no revert script was sent after it.
DocumentMutated ==
    \E p \in 1..Len(log) :
        /\ log[p].op \in MutatingScripts
        /\ Resolved(p)
        /\ \A q \in CallsOf("revert") : q < p

\* A gateway call has failed after the init script has run.
GatewayFailure ==
    /\ step = "failed"
    /\ Len(log) >= 2
    /\ log[Len(log)].op \in GatewayCalls
    /\ Resolved(1)

\* C13: when a gateway call (documentOffset, eachFn, raw screenshot or
\* completeFn) fails after the init script has run, no further view-port is
\* captured, and by the end of the operation the revert script has been
\* executed, so that the document does not stay translated or resized.
C13_RevertAfterFailure ==
    (GatewayFailure /\ Ended) =>
        /\ inflight = {}
        /\ CallsOf("revert") # {}
        /\ ~DocumentMutated

\* C14: when the document is wider than the maxImageResolution adjusted by the
\* device-pixel-ratio, the configuration error is raised before any script that
\* changes the document has been executed, and no raw screenshot is taken.
C14_ConfigErrorBeforeMutation ==
    pc = "configError" =>
        /\ \A p \in 1..Len(log) : log[p].op \notin MutatingScripts
        /\ RawScreenshots = {}
        /\ ~DocumentMutated

\* ---------------------------------------------------------------------------
\* The session caches of the driver: devicePixelRatio and needsStitching
\* (lib/driver.js lines 76-80 and 300-313, lib/utils.js lines 299-393 and
\* 501-553).  Ratios are kept in hundredths (133 is 1.33).
\* ---------------------------------------------------------------------------

MaxGetterCalls == 2

\* "needsStitching: null" and "devicePixelRatio: null" of the registry.
NoRatio == [null |-> TRUE, value |-> 0]
NoStitching == [null |-> TRUE, value |-> FALSE]
Cached(v) == [null |-> FALSE, value |-> v]

\* What the browser answers to the calibration scripts and screenshots.
ReportedRatios == {100, 133, 200}
DocumentWidths == {20, 25}
CalibrationViewPorts == {5, 10}
RatioImageWidths == {20, 25, 31, 36, 50}
StitchingImageWidths == {7, 10, 16, 20, 40}
Browsers == {[name |-> "chrome", version |-> 42],
             [name |-> "internet explorer", version |-> 9],
             [name |-> "Internet Explorer", version |-> 10],
             [name |-> "internet explorer", version |-> 11]}

toLowerCase(name) == IF name = "Internet Explorer" THEN "internet explorer" ELSE name

Abs(n) == IF n < 0 THEN -n ELSE n

\* Math.round(m * 10) for m = width / documentWidth: the nearest integer, a
\* half going up.  The product is a floating-point number; when it is a half
\* in exact arithmetic its floating-point value may lie on either side.
RoundTenths(width, documentWidth) ==
    LET up == (20 * width + documentWidth) \div (2 * documentWidth)
    IN  IF (20 * width + documentWidth) % (2 * documentWidth) = 0
        THEN {up - 1, up}
        ELSE {up}

\* a resolver that compares the reported ratio with the measured ratio itself
\* and rounds what it returns
DetermineOnMeasuredRatio(width, documentWidth, reported) ==
    IF Abs(100 * width - reported * documentWidth) <= 10 * documentWidth
    THEN {reported}
    ELSE {10 * t : t \in RoundTenths(width, documentWidth)}

\* The callback of the revert script in _determineDevicePixelRatio, lines
\* 536-548: the results it can give, in hundredths.  The measured ratio is
\* always replaced by its rounding to a tenth (the test of line 539 holds for
\* every number), and it is the rounded ratio that is compared with the
\* reported one.  At a distance of exactly 0.1 the floating-point comparison
\* of line 543 can go either way.
_determineDevicePixelRatio(width, documentWidth, reported) ==
    UNION {
        LET rounded == 10 * t
            distance == Abs(rounded - reported)
        IN  IF distance < 10 THEN {reported}
            ELSE IF distance > 10 THEN {rounded}
            ELSE {reported, rounded}
        : t \in RoundTenths(width, documentWidth)}

\* a stitching test without the exception for Internet Explorer
NeedsStitchingNoExceptions(width, viewPortWidth, ratio, browser) ==
    LET expected == viewPortWidth * 2 * ratio
        difference == 100 * width - expected
    IN  IF difference > 0 \/ Abs(difference) * 5 < expected THEN {FALSE}
        ELSE IF Abs(difference) * 5 > expected THEN {TRUE}
        ELSE {TRUE, FALSE}

\* _needsStitchingExceptions, lines 369-393: the results it can give.  Widths
\* are compared in hundredths of a pixel; when delta is exactly a fifth of the
\* expected width the floating-point product "expectedViewPortWidth * 0.2"
\* decides.
_needsStitchingExceptions(width, viewPortWidth, ratio, browser) ==
    LET expected == viewPortWidth * 2 * ratio
        difference == 100 * width - expected
        delta == Abs(difference)
        measured == IF difference > 0 \/ delta * 5 < expected THEN {FALSE}
                    ELSE IF delta * 5 > expected THEN {TRUE}
                    ELSE {TRUE, FALSE}
    IN  {byWidth \/ (toLowerCase(browser.name) = "internet explorer"
                     /\ browser.version >= 10)
         : byWidth \in measured}

\* a lookup that never finds the value in the registry
AlwaysDetermine(entry) == TRUE

\* "if (devicePixelRatio === null)", "if (needsStitching === null)"
NeedsDetermination(entry) == entry.null

Getters == {"getDevicePixelRatio", "doesNeedStitching", "documentScreenshot"}

SessionInit ==
    /\ \E browser \in Browsers, reported \in ReportedRatios,
          documentWidth \in DocumentWidths, viewPortWidth \in CalibrationViewPorts :
          session = [pc |-> "ready",
                     registry |-> [devicePixelRatio |-> NoRatio,
                                   needsStitching |-> NoStitching],
                     browser |-> browser,
                     initData |-> [devicePixelRatio |-> reported,
                                   documentWidth |-> documentWidth,
                                   viewPortWidth |-> viewPortWidth],
                     fn |-> "none",
                     sent |-> 0,
                     ratioImage |-> 0,
                     stitchingImage |-> 0,
                     ratioUsed |-> 0,
                     trace |-> << >>]
    /\ waiter = [pc |-> "idle"]
    /\ validation = [pc |-> "idle"]
    /\ deferred = [pc |-> "idle"]
    /\ document = [pc |-> "idle"]

\* The end of a call: what it gave its caller and how many gateway calls it made.
Finished(s, ok) ==
    [s EXCEPT !.pc = "ready", !.fn = "none", !.sent = 0,
              !.trace = Append(@, [fn |-> s.fn, ok |-> ok, sent |-> s.sent,
                                   ratio |-> s.registry.devicePixelRatio,
                                   stitching |-> s.registry.needsStitching])]

\* One more gateway call is sent; the call waits for its answer.
Sent(s, stage) == [s EXCEPT !.pc = stage, !.sent = @ + 1]

\* doesNeedStitching and what follows it in the call.
ToStitching(s) ==
    IF s.fn = "getDevicePixelRatio" THEN Finished(s, TRUE)
    ELSE IF NeedsDetermination(s.registry.needsStitching)
         THEN Sent(s, "stitching.init")
    ELSE IF s.fn = "documentScreenshot" THEN Sent(s, "capture")
    ELSE Finished(s, TRUE)

\* getDevicePixelRatio and what follows it in the call.
ToRatio(s) ==
    IF NeedsDetermination(s.registry.devicePixelRatio)
    THEN Sent(s, "ratio.init")
    ELSE ToStitching(s)

\* A call of one of the getters, or of a screenshot operation, which asks
\* both getters before it captures (part_012 lines 335-337).
\* doesNeedStitching looks at its own cache first.  The calls of a session
\* are made one after the other: a call starts when the one before has ended.
Get(fn) ==
    /\ session.pc = "ready"
    /\ Len(session.trace) < MaxGetterCalls
    /\ session' =
          LET s == [session EXCEPT !.fn = fn]
          IN  IF fn = "doesNeedStitching"
                 /\ ~NeedsDetermination(s.registry.needsStitching)
              THEN Finished(s, TRUE)
              ELSE ToRatio(s)
    /\ UNCHANGED <<planVars, captureVars, compareVars, waiter, validation, deferred, document>>

Getter == \E fn \in Getters : Get(fn)

\* devicePixelRatioScripts.init has answered: take the screenshot.
RatioInit ==
    /\ session.pc = "ratio.init"
    /\ session' = Sent(session, "ratio.shot")
    /\ UNCHANGED <<planVars, captureVars, compareVars, waiter, validation, deferred, document>>

\* The screenshot has arrived: send devicePixelRatioScripts.revert.
RatioShot ==
    /\ session.pc = "ratio.shot"
    /\ \E width \in RatioImageWidths :
          session' = Sent([session EXCEPT !.ratioImage = width], "ratio.revert")
    /\ UNCHANGED <<planVars, captureVars, compareVars, waiter, validation, deferred, document>>

\* The revert has answered: determine the ratio, cache it, go on.
RatioRevert ==
    /\ session.pc = "ratio.revert"
    /\ \E value \in _determineDevicePixelRatio(session.ratioImage,
                                               session.initData.documentWidth,
                                               session.initData.devicePixelRatio) :
          session' = ToStitching([session EXCEPT
                                    !.registry.devicePixelRatio = Cached(value)])
    /\ UNCHANGED <<planVars, captureVars, compareVars, waiter, validation, deferred, document>>

\* stitchingScripts.init has answered: take the screenshot.
StitchingInit ==
    /\ session.pc = "stitching.init"
    /\ session' = Sent(session, "stitching.shot")
    /\ UNCHANGED <<planVars, captureVars, compareVars, waiter, validation, deferred, document>>

\* The screenshot has arrived: send stitchingScripts.revert.
StitchingShot ==
    /\ session.pc = "stitching.shot"
    /\ \E width \in StitchingImageWidths :
          session' = Sent([session EXCEPT !.stitchingImage = width],
                          "stitching.revert")
    /\ UNCHANGED <<planVars, captureVars, compareVars, waiter, validation, deferred, document>>

\* The revert has answered: decide, cache the answer, go on.  The ratio is the
\* one getDevicePixelRatio gave to this call.
StitchingRevert ==
    /\ session.pc = "stitching.revert"
    /\ \E value \in _needsStitchingExceptions(session.stitchingImage,
                                              session.initData.viewPortWidth,
                                              session.registry.devicePixelRatio.value,
                                              session.browser) :
          session' =
              LET s == [session EXCEPT
                          !.registry.needsStitching = Cached(value),
                          !.ratioUsed = session.registry.devicePixelRatio.value]
              IN  IF s.fn = "documentScreenshot" THEN Sent(s, "capture")
                  ELSE Finished(s, TRUE)
    /\ UNCHANGED <<planVars, captureVars, compareVars, waiter, validation, deferred, document>>

\* The capture of a screenshot operation, which reads the registry only.
SessionCapture ==
    /\ session.pc = "capture"
    /\ session' = Finished(session, TRUE)
    /\ UNCHANGED <<planVars, captureVars, compareVars, waiter, validation, deferred, document>>

\* The gateway rejects the call that is waiting for its answer.
Reject ==
    /\ session.pc \notin {"idle", "ready"}
    /\ session' = Finished(session, FALSE)
    /\ UNCHANGED <<planVars, captureVars, compareVars, waiter, validation, deferred, document>>

SessionNext ==
    \/ Getter
    \/ RatioInit
    \/ RatioShot
    \/ RatioRevert
    \/ StitchingInit
    \/ StitchingShot
    \/ StitchingRevert
    \/ SessionCapture
    \/ Reject

InitSession == SessionInit /\ mode = "sync" /\ PlanIdle /\ CaptureIdle /\ CompareIdle

SpecSession == InitSession /\ [][SessionNext]_vars


(***************************************************************************)
(* Claims about the session caches (checked under SpecSession).  An entry  *)
(* of session.trace is a call that has ended: its getter, whether it       *)
(* succeeded, the gateway calls it made and the registry it left.          *)
(***************************************************************************)
CacheGetters == {"getDevicePixelRatio", "doesNeedStitching"}

\* What a call of the getter gave its caller.
GetterResult(entry) ==
    IF entry.fn = "getDevicePixelRatio" THEN entry.ratio ELSE entry.stitching

\* C15: for each of the two session caches, in a series of calls made one
\* after the other on one driver, the determination procedure runs only on the
\* first successful call: every later call of the getter makes no gateway call
\* and returns the value of the first one, and no call, a screenshot operation
\* included, changes a value once it is cached.
C15_DeterminedOnce ==
    /\ \A i \in 1..Len(session.trace) :
          LET first == session.trace[i]
          IN  /\ (first.fn \in CacheGetters /\ first.ok) =>
                    /\ ~GetterResult(first).null
                    /\ session.fn # first.fn
                    /\ \A j \in (i + 1)..Len(session.trace) :
                          session.trace[j].fn = first.fn =>
                              /\ session.trace[j].ok
                              /\ session.trace[j].sent = 0
                              /\ GetterResult(session.trace[j]) = GetterResult(first)
              /\ ~first.ratio.null =>
                    /\ session.registry.devicePixelRatio = first.ratio
                    /\ \A j \in (i + 1)..Len(session.trace) :
                          session.trace[j].ratio = first.ratio
              /\ ~first.stitching.null =>
                    /\ session.registry.needsStitching = first.stitching
                    /\ \A j \in (i + 1)..Len(session.trace) :
                          session.trace[j].stitching = first.stitching
    /\ session.pc \in {"ratio.init", "ratio.shot", "ratio.revert"} =>
          session.registry.devicePixelRatio.null
    /\ session.pc \in {"stitching.init", "stitching.shot", "stitching.revert"} =>
          session.registry.needsStitching.null

C15_Witness ==
    /\ Len(session.trace) = 2
    /\ session.trace[1].fn = "doesNeedStitching"
    /\ session.trace[1].ok
    /\ session.trace[1].sent = 6
    /\ session.trace[2].fn = "doesNeedStitching"
    /\ session.trace[2].sent = 0
    /\ session.trace[2].stitching = session.trace[1].stitching

\* The last determination of the ratio that came to its end: the width of its
\* screenshot, the init data, and the value it cached.
RatioDetermined == ~session.registry.devicePixelRatio.null
MeasuredWidth   == session.ratioImage
DocumentWidth   == session.initData.documentWidth
ReportedRatio   == session.initData.devicePixelRatio
DeterminedRatio == session.registry.devicePixelRatio.value

\* |r - m| in hundredths, times the document width (m = width / documentWidth).
MeasuredDistance == Abs(100 * MeasuredWidth - ReportedRatio * DocumentWidth)

\* C16: _determineDevicePixelRatio returns the reported ratio r whenever
\* |r - m| <= 0.1 for the measured ratio m, and m rounded to the nearest tenth
\* whenever |r - m| > 0.1, the comparison being made on m itself.
C16_ComparesMeasuredRatio ==
    RatioDetermined =>
        /\ MeasuredDistance <= 10 * DocumentWidth => DeterminedRatio = ReportedRatio
        /\ MeasuredDistance > 10 * DocumentWidth =>
              DeterminedRatio \in {10 * t : t \in RoundTenths(MeasuredWidth, DocumentWidth)}

\* C16, amended: _determineDevicePixelRatio first rounds the measured ratio to
\* the nearest tenth and compares the rounded ratio with the reported one: it
\* returns the reported ratio when the two are less than 0.1 apart, the
\* rounded ratio when they are more than 0.1 apart, and one of the two when
\* they are exactly 0.1 apart.
C16_ComparesRoundedRatio ==
    RatioDetermined =>
        \E t \in RoundTenths(MeasuredWidth, DocumentWidth) :
            \/ Abs(10 * t - ReportedRatio) <= 10 /\ DeterminedRatio = ReportedRatio
            \/ Abs(10 * t - ReportedRatio) >= 10 /\ DeterminedRatio = 10 * t

\* reported 1.33, measured 36 / 25 = 1.44: more than 0.1 apart, and the
\* reported ratio is returned.
C16_Witness ==
    /\ RatioDetermined
    /\ ReportedRatio = 133
    /\ MeasuredWidth = 36
    /\ DocumentWidth = 25
    /\ MeasuredDistance > 10 * DocumentWidth
    /\ DeterminedRatio = ReportedRatio

\* The determination of needsStitching that came to its end: the expected
\* width E = 2 * viewPortWidth * devicePixelRatio and the actual width A of
\* the screenshot, both in hundredths of a pixel, and the cached answer.
StitchingDetermined == ~session.registry.needsStitching.null
ExpectedWidth == session.initData.viewPortWidth * 2 * session.ratioUsed
ActualWidth   == 100 * session.stitchingImage
InternetExplorer10 ==
    /\ toLowerCase(session.browser.name) = "internet explorer"
    /\ session.browser.version >= 10

MaxApplications == 2

AreaDocSizes == 0..MaxDoc
AreaCorners  == (0 - 1)..(MaxDoc + 1)
AreaExtents  == (0 - 1)..(MaxDoc + 1)

AreaInit ==
    /\ \E d \in [width : AreaDocSizes, height : AreaDocSizes],
          a \in [x : AreaCorners, y : AreaCorners,
                 width : AreaExtents, height : AreaExtents] :
          validation = [pc |-> "ready", document |-> d, areas |-> <<a>>]
    /\ session = [pc |-> "idle"]
    /\ waiter = [pc |-> "idle"]
    /\ deferred = [pc |-> "idle"]
    /\ document = [pc |-> "idle"]

LastArea == validation.areas[Len(validation.areas)]

\* One call of _validateArea on the area the last call left.
ValidateArea ==
    /\ validation.pc = "ready"
    /\ Len(validation.areas) <= MaxApplications
    /\ validation' =
          IF AreaIsNegative(LastArea)
          THEN [validation EXCEPT !.pc = "areaError"]
          ELSE [validation EXCEPT
                  !.areas = Append(@, _validateArea(LastArea, validation.document))]
    /\ UNCHANGED <<planVars, captureVars, compareVars, session, waiter, deferred, document>>

AreaNext == ValidateArea

InitArea == AreaInit /\ mode = "sync" /\ PlanIdle /\ CaptureIdle /\ CompareIdle

SpecArea == InitArea /\ [][AreaNext]_vars

\* C18: _validateArea is idempotent: for every area with non-negative width
\* and height and every document size, a second application (and every later
\* one) raises nothing and gives the x, y, width and height of the first.
C18_ValidateAreaIdempotent ==
    Len(validation.areas) >= 2 =>
        /\ validation.pc = "ready"
        /\ \A i \in 2..Len(validation.areas) :
              validation.areas[i] = validation.areas[2]

\* An area whose corner lay beyond the document and whose size was cut down,
\* validated twice.
C18_Witness ==
    /\ Len(validation.areas) >= 3
    /\ validation.areas[1].x >= validation.document.width
    /\ validation.areas[1].y < 0
    /\ validation.areas[2].x # validation.areas[1].x
    /\ validation.areas[2].width < validation.areas[1].width
    /\ validation.areas[3] = validation.areas[2]

\* ---------------------------------------------------------------------------
\* Utils.prototype.waitUntil (lib/utils.js lines 82-101) and the chain helpers
\* waitForElementNotPresent and waitForElementPresent that call it
\* (lib/chain.js lines 2941-2956 and 3025-3040).
\* ---------------------------------------------------------------------------

MaxEvaluations == 23

\* "timeOut || 10000" and the wait of 500 ms of the chain helpers.
DefaultTimeOut == 10000
ChainWait == 500

Undefined == [kind |-> "undefined", n |-> 0]

TimeOutArgs == {Undefined, Num(0), Num(400), Num(1000), Num(1200)}
AbortArgs   == {"undefined", "true", "false"}
WaitArgs    == {300, 500}
Selectors   == {"#menu"}

\* "timeOut || 10000": undefined and 0 are falsy.
OrDefaultTimeOut(t) ==
    IF t.kind = "undefined" \/ (t.kind = "num" /\ t.n = 0) THEN Num(DefaultTimeOut) ELSE t

\* "timeOut -= wait": undefined - wait is NaN, and so is NaN - wait.
Minus(t, w) == IF t.kind = "num" THEN Num(t.n - w) ELSE NaN

\* "timeOut < 0": false for NaN.
Negative(t) == t.kind = "num" /\ t.n < 0

\* "function () { return (abortOnFailure === undefined) || abortOnFailure; }"
timeOutFn(abortOnFailure) == abortOnFailure = "undefined" \/ abortOnFailure = "true"

\* "message || 'Timeout waiting for an event.'"
TimeOutError(message) == IF message = "" THEN "Timeout waiting for an event." ELSE message

WaitIdle == [pc |-> "ready"]

WaitInit ==
    /\ waiter = WaitIdle
    /\ session = [pc |-> "idle"]
    /\ validation = [pc |-> "idle"]
    /\ deferred = [pc |-> "idle"]
    /\ document = [pc |-> "idle"]

\* The call of waitUntil(fn, timeOut, wait, message, timeOutFn) by helper.
WaitUntilCall(helper, timeOutArg, timeOut, wait, message, abortOnFailure) ==
    [pc |-> "enter", helper |-> helper, given |-> timeOutArg,
     timeOut |-> timeOut, wait |-> wait, message |-> message,
     abortOnFailure |-> abortOnFailure,
     evaluations |-> 0, expired |-> FALSE, error |-> "", caller |-> "waiting"]

\* chain.waitForElementNotPresent(selector, timeOut, abortOnFailure)
waitForElementNotPresent ==
    /\ waiter.pc = "ready"
    /\ \E selector \in Selectors, timeOut \in TimeOutArgs, abortOnFailure \in AbortArgs :
          waiter' = WaitUntilCall("waitForElementNotPresent", timeOut,
                                  OrDefaultTimeOut(timeOut), ChainWait,
                                  selector, abortOnFailure)
    /\ UNCHANGED <<planVars, captureVars, compareVars, session, validation, deferred, document>>

\* chain.waitForElementPresent(selector, timeOut, abortOnFailure)
waitForElementPresent ==
    /\ waiter.pc = "ready"
    /\ \E selector \in Selectors, timeOut \in TimeOutArgs, abortOnFailure \in AbortArgs :
          waiter' = WaitUntilCall("waitForElementPresent", timeOut,
                                  timeOut, ChainWait, selector, abortOnFailure)
    /\ UNCHANGED <<planVars, captureVars, compareVars, session, validation, deferred, document>>

\* utils.waitUntil(fn, timeOut, wait, message, timeOutFn) called directly.
waitUntil ==
    /\ waiter.pc = "ready"
    /\ \E timeOut \in TimeOutArgs, wait \in WaitArgs, abortOnFailure \in AbortArgs,
          message \in {"", "too late"} :
          waiter' = WaitUntilCall("waitUntil", timeOut, timeOut, wait,
                                  message, abortOnFailure)
    /\ UNCHANGED <<planVars, captureVars, compareVars, session, validation, deferred, document>>

\* internalWaitUntil(timeOut), lines 84-98: the time left is reduced by wait;
\* once it is negative the time-out callback is asked, and the error is thrown
\* when the callback answers false; otherwise fn() is called and the callback
\* of its result attached.  The promise of when() is not returned, so in async
\* mode the caller has its (undefined) result as soon as the first call of
\* internalWaitUntil is over, and an error thrown from a later call rejects a
\* promise nobody holds.  Nothing sleeps between two evaluations.
internalWaitUntil ==
    /\ waiter.pc = "enter"
    /\ waiter.evaluations < MaxEvaluations
    /\ LET left == Minus(waiter.timeOut, waiter.wait)
       IN  waiter' =
             IF Negative(left) /\ ~timeOutFn(waiter.abortOnFailure)
             THEN [waiter EXCEPT
                     !.pc = "thrown", !.timeOut = left, !.expired = TRUE,
                     !.error = TimeOutError(waiter.message),
                     !.caller = IF mode = "sync" \/ waiter.evaluations = 0
                                THEN "raised" ELSE @]
             ELSE [waiter EXCEPT
                     !.pc = "polling", !.timeOut = left,
                     !.expired = @ \/ Negative(left),
                     !.evaluations = @ + 1,
                     !.caller = IF mode = "async" THEN "returned" ELSE @]
    /\ UNCHANGED <<planVars, captureVars, compareVars, session, validation, deferred, document>>

\* The callback of fn(), lines 93-97: a falsy result polls again, a truthy one
\* ends the wait.
Result ==
    /\ waiter.pc = "polling"
    /\ \E result \in BOOLEAN :
          waiter' = IF result
                    THEN [waiter EXCEPT !.pc = "done", !.caller = "returned"]
                    ELSE [waiter EXCEPT !.pc = "enter"]
    /\ UNCHANGED <<planVars, captureVars, compareVars, session, validation, deferred, document>>

WaitNext ==
    \/ waitForElementNotPresent
    \/ waitForElementPresent
    \/ waitUntil
    \/ internalWaitUntil
    \/ Result

InitWait == WaitInit /\ mode \in {"sync", "async"} /\ PlanIdle /\ CaptureIdle /\ CompareIdle

SpecWait == InitWait /\ [][WaitNext]_vars

(***************************************************************************)
(* Claims about waitUntil (checked under SpecWait).                        *)
(***************************************************************************)
Waiting == waiter.pc \in {"enter", "polling", "thrown", "done"}

\* The abort policy of the caller: abortOnFailure, true when it is omitted.
AbortPolicy == waiter.abortOnFailure # "false"

\* C19: when the deadline elapses while the condition is still false,
\* waitUntil raises the time-out error, with the given message, if the abort
\* policy of the caller is true (the default of the chain helpers), and ends
\* without raising if the abort policy is false.
C19_AbortPolicy ==
    (Waiting /\ waiter.expired) =>
        IF AbortPolicy
        THEN /\ waiter.pc = "thrown"
             /\ waiter.error = TimeOutError(waiter.message)
             /\ waiter.caller = "raised"
        ELSE /\ waiter.pc # "thrown"
             /\ waiter.caller # "raised"

\* The time-out of the call in ms: the one given, 10000 when it is omitted.
DocumentedTimeOut ==
    IF waiter.given.kind = "undefined" THEN DefaultTimeOut ELSE waiter.given.n

\* C20: waitUntil terminates: for every timeOut (an omitted one counts as
\* 10000 ms), every positive wait and a condition that is never true, polling
\* stops once the deadline has elapsed, so that the condition is evaluated at
\* most timeOut / wait (+ 1) times, and nothing is evaluated after the
\* deadline.
C20_BoundedPolling ==
    Waiting =>
        /\ waiter.evaluations <= DocumentedTimeOut \div waiter.wait + 1
        /\ waiter.expired => waiter.pc \in {"thrown", "done"}


(***************************************************************************)
(* More claims about the capture (checked under SpecCapture).              *)
(***************************************************************************)
\* No browser call of the capture was rejected: a failed capture whose last
\* entry is a call to the browser has failed by that call.
NoCallRejected ==
    ~(step = "failed" /\ Len(log) >= 1 /\ log[Len(log)].op # "sleep")

\* C21: a screenshot operation called with the options argument omitted
\* completes and returns the image: the eachFn and completeFn steps are
\* skipped and the document is reverted, as with an empty options object.
C21_OmittedOptions ==
    (~options.given /\ pc = "planned" /\ NoCallRejected /\ Ended) =>
        /\ step = "done"
        /\ CallsOf("eachFn") = {} /\ CallsOf("completeFn") = {}
        /\ Cardinality(RawScreenshots) = Len(ViewPortList(sections))
        /\ CallsOf("revert") # {}


\* ---------------------------------------------------------------------------
\* Screenshot.prototype._stitchImages (part_012 lines 739-774), run on the plan
\* of the planner.  A copy is one bitblt call: the rectangle read from the raw
\* screenshot of a view-port and the place it is written to in the composite.
\* ---------------------------------------------------------------------------

\* The size of the raw screenshot of a view-port: the view-port of the browser
\* when the browser needs stitching, the document (cut to the section by
\* documentOffset when the section is shifted) otherwise.
RawImageSize(init, dpr, stitching, section) ==
    IF stitching
    THEN [width  |-> init.viewPort.width * dpr,
          height |-> init.viewPort.height * dpr]
    ELSE [width  |-> init.document.width * dpr,
          height |-> (IF section.shift THEN section.height
                      ELSE init.document.height) * dpr]

\* The bitblt call of lines 752-760.
Copy(section, viewPort, pad, init, dpr, stitching) ==
    LET raw == RawImageSize(init, dpr, stitching, section)
    IN  [index  |-> viewPort.index,
         srcX   |-> 0,
         srcY   |-> 0,
         width  |-> Min(viewPort.width * dpr, raw.width),
         height |-> Min(viewPort.height * dpr, raw.height),
         dstX   |-> (section.x + viewPort.x) * dpr,
         dstY   |-> (section.y + viewPort.y) * dpr]

_stitchImages(a, secs, pad, init, dpr, stitching) ==
    [width  |-> a.width * dpr,
     height |-> a.height * dpr,
     copies |-> [k \in 1..Len(ViewPortList(secs)) |->
                    Copy(ViewPortList(secs)[k].section, ViewPortList(secs)[k].viewPort,
                         pad, init, dpr, stitching)]]

\* Lines 372-375 of _takeScreenshot, once every raw screenshot is there.
Stitch ==
    /\ pc = "planned"
    /\ composite' = _stitchImages(area, sections, padding, initData,
                                  devicePixelRatio, needsStitching)
    /\ pc' = "stitched"
    /\ UNCHANGED <<initData, padding, maxImageResolution, devicePixelRatio,
                   needsStitching, area, sections>>
    /\ UNCHANGED <<captureVars, compareVars, helperVars>>

StitchNext == Plan \/ Stitch

InitStitch ==
    /\ InitPlan
    /\ padding.top <= 1
    /\ padding.left <= 1

SpecStitch == InitStitch /\ [][StitchNext]_vars

(***************************************************************************)
(* Claims about the composite (checked under SpecStitch).                  *)
(***************************************************************************)
Copies == {composite.copies[k] : k \in 1..Len(composite.copies)}

\* C22: view-port padding is excluded from the capture: the rectangle copied
\* from each raw screenshot into the composite starts at (padding.left,
\* padding.top) scaled by the device-pixel-ratio.
C22_PaddingExcluded ==
    pc = "stitched" =>
        \A c \in Copies :
            /\ c.srcX = padding.left * devicePixelRatio
            /\ c.srcY = padding.top * devicePixelRatio

\* The pixels of the composite and the pixels a copy writes.
Bitmap == (0..(composite.width - 1)) \X (0..(composite.height - 1))
Written(c) == (c.dstX..(c.dstX + c.width - 1)) \X (c.dstY..(c.dstY + c.height - 1))

\* C26: for every validated area, also one with area.x > 0 or area.y > 0, and
\* every plan produced for it, the rectangle written for each view-port lies
\* inside the composite of area.width * devicePixelRatio by area.height *
\* devicePixelRatio, and the rectangles of all view-ports together cover the
\* composite.
C26_CopiesFillComposite ==
    pc = "stitched" =>
        /\ \A c \in Copies : Written(c) \subseteq Bitmap
        /\ Bitmap \subseteq UNION {Written(c) : c \in Copies}

(***************************************************************************)
(* A series of compare calls of one test run against one configuration of  *)
(* the three roots, with blinkdiff as the only plugin (sync mode).  The    *)
(* caller either builds a fresh options object {id: id} for a call, or     *)
(* passes the object of the call before once more.  events keeps one entry *)
(* per call of the series.                                                 *)
(***************************************************************************)
MaxSeries == 2

ApprovedRoots == {"", "shots"}
BuildRoots    == {"", "shots", "shots/", "out"}
DiffRoots     == {"", "shots", "out"}

SeriesInit ==
    /\ PlanIdle /\ CaptureIdle /\ HelperIdle
    /\ mode = "sync"
    /\ config \in [approvedPath : ApprovedRoots, buildPath : BuildRoots,
                   diffPath : DiffRoots,
                   autoApprove : BOOLEAN,
                   outputOnSuccess : {"undefined", "true", "false"},
                   failOnDifference : {"undefined", "true", "false"},
                   tolerant : {FALSE}]
    \* an earlier run may have left an approved image for "home", id 1
    /\ files \in {{}, {<<_getApprovedImagePath(config, "home", 0), "imgA">>}}
    /\ callOptions = [id |-> 0]
    /\ queue = << >>
    /\ outcome = [kind |-> "none", value |-> "", error |-> ""]
    /\ events = << >>
    /\ calls = 0

\* What one call of the series leaves in the log: the three paths it
\* addressed, the approved image before and after it, and whether the caller
\* passed the options object of the call before.
SeriesEvent(same, given, title, id, r) ==
    [same |-> same, given |-> given, title |-> title,
     approved |-> _getApprovedImagePath(config, title, id),
     build    |-> _getBuildImagePath(config, title, id),
     diff     |-> _getDiffImagePath(config, title, id),
     before   |-> Content(files, _getApprovedImagePath(config, title, id)),
     after    |-> Content(r.files, _getApprovedImagePath(config, title, id)),
     writes   |-> r.writes, verdict |-> r.verdict]

\* Comparison.prototype.compare(title, imageBlob, options) with options.id = id
\* on entry; given is the id the caller put into the object when building it.
SeriesCall(same, given, title, imageBlob, id) ==
    LET r == BlinkDiffCompare(files, config, title, imageBlob, id, TRUE)
    IN  /\ calls < MaxSeries
        /\ calls' = calls + 1
        /\ files' = r.files
        /\ events' = Append(events, SeriesEvent(same, given, title, id, r))
        /\ outcome' = IF r.verdict = "threw" THEN Threw(r.message)
                      ELSE Returned("undefined")
        \* "delete options.id"
        /\ callOptions' = [id |-> 0]
        /\ UNCHANGED <<config, mode, queue>>

\* a call with an options object built for it
CompareWith ==
    /\ \E title \in Titles, imageBlob \in Images, id \in OptionIds :
           SeriesCall(FALSE, id, title, imageBlob, id)
    /\ UNCHANGED <<planVars, captureVars, helperVars>>

\* a call with the title and the options object of the call before
CompareAgain ==
    /\ events # << >>
    /\ \E imageBlob \in Images :
           SeriesCall(TRUE, events[Len(events)].given, events[Len(events)].title,
                      imageBlob, callOptions.id)
    /\ UNCHANGED <<planVars, captureVars, helperVars>>

SeriesNext == CompareWith \/ CompareAgain
InitSeries == SeriesInit
SpecSeries == InitSeries /\ [][SeriesNext]_vars

SeriesCalls == {events[k] : k \in 1..Len(events)}

C28_SameOptionsSameRecord ==
    \A k \in 2..Len(events) :
        events[k].same =>
            /\ events[k].approved = events[k - 1].approved
            /\ events[k].build = events[k - 1].build
            /\ events[k].diff = events[k - 1].diff

WhenNumbers == {0, 4}

Number(n) == [type |-> "number", truthy |-> n # 0, then |-> "absent",
              state |-> "none", value |-> n]

WhenValues ==
    {Number(n) : n \in WhenNumbers}
    \cup {[type |-> "object", truthy |-> FALSE, then |-> "absent",   \* null
           state |-> "none", value |-> 0]}
    \cup {[type |-> "object", truthy |-> TRUE, then |-> t,
           state |-> "none", value |-> 0] : t \in {"absent", "number"}}
    \cup {[type |-> ty, truthy |-> TRUE, then |-> "function",
           state |-> st, value |-> n] :
              ty \in {"object", "function"}, st \in {"fulfilled", "rejected"},
              n \in WhenNumbers}
    \cup {[type |-> ty, truthy |-> TRUE, then |-> "function",
           state |-> "pending", value |-> 0] : ty \in {"object", "function"}}

Callbacks      == {"returns3", "identity", "throws"}
ErrorCallbacks == {"absent", "returns9", "throws"}

\* calling a callback with one argument
Apply(fn, arg) ==
    CASE fn = "identity" -> [kind |-> "returned", state |-> "none", value |-> arg]
      [] fn = "returns3" -> [kind |-> "returned", state |-> "none", value |-> Number(3)]
      [] fn = "returns9" -> [kind |-> "returned", state |-> "none", value |-> Number(9)]
      [] fn = "throws"   -> [kind |-> "threw", state |-> "none", value |-> arg]

isPromise(val) ==
    val.truthy /\ val.type \in {"object", "function"} /\ val.then = "function"

\* a when that unwraps a promise which is fulfilled already and calls cb at once
WhenUnwraps(val, cb, eb) ==
    IF isPromise(val) /\ val.state # "fulfilled"
    THEN [cbCalls |-> << >>, registered |-> TRUE,
          result |-> [kind |-> "promise", state |-> "pending", value |-> Number(0)]]
    ELSE LET arg == IF isPromise(val) THEN Number(val.value) ELSE val
         IN  [cbCalls |-> <<arg>>, registered |-> FALSE, result |-> Apply(cb, arg)]

\* when(val, cb, eb): the calls of cb made before it returns, whether a
\* reaction was registered with val.then(cb, eb), and what it returns
when(val, cb, eb) ==
    IF isPromise(val)
    THEN [cbCalls |-> << >>, registered |-> TRUE,
          result |-> [kind |-> "promise", state |-> "pending", value |-> Number(0)]]
    ELSE [cbCalls |-> <<val>>, registered |-> FALSE, result |-> Apply(cb, val)]

WhenInit ==
    /\ PlanIdle /\ CaptureIdle /\ CompareIdle
    /\ mode = "sync"
    /\ session = [pc |-> "idle"]
    /\ waiter = [pc |-> "idle"]
    /\ validation = [pc |-> "idle"]
    /\ document = [pc |-> "idle"]
    /\ deferred \in [pc : {"start"}, val : WhenValues, cb : Callbacks,
                     eb : ErrorCallbacks, cbCalls : {<< >>}, ebCalls : {<< >>},
                     sync : {0}, registered : {FALSE},
                     result : {[kind |-> "none", state |-> "none",
                                value |-> Number(0)]}]

WhenFrame == UNCHANGED <<planVars, captureVars, compareVars, session, waiter,
                         validation, document>>

\* the call of when, up to its return
WhenCall ==
    /\ deferred.pc = "start"
    /\ LET r == when(deferred.val, deferred.cb, deferred.eb)
       IN  deferred' = [deferred EXCEPT !.pc = "returned",
                                        !.cbCalls = r.cbCalls,
                                        !.sync = Len(r.cbCalls),
                                        !.registered = r.registered,
                                        !.result = r.result]
    /\ WhenFrame

\* a pending promise is fulfilled or rejected, before or after the call
Settle ==
    /\ deferred.pc \in {"start", "returned"}
    /\ isPromise(deferred.val)
    /\ deferred.val.state = "pending"
    /\ \E st \in {"fulfilled", "rejected"}, n \in WhenNumbers :
          deferred' = [deferred EXCEPT !.val.state = st, !.val.value = n]
    /\ WhenFrame

\* the promise returned by then() takes the outcome of the callback it ran
Derived(r) ==
    [kind |-> "promise",
     state |-> IF r.kind = "threw" THEN "rejected" ELSE "fulfilled",
     value |-> r.value]

\* the job of the reaction registered by val.then(cb, eb)
Reaction ==
    /\ deferred.pc = "returned"
    /\ deferred.registered
    /\ deferred.val.state \in {"fulfilled", "rejected"}
    /\ LET arg == Number(deferred.val.value)
       IN  IF deferred.val.state = "fulfilled"
           THEN deferred' = [deferred EXCEPT
                                !.pc = "settled",
                                !.cbCalls = Append(@, arg),
                                !.result = Derived(Apply(deferred.cb, arg))]
           ELSE IF deferred.eb = "absent"
           THEN deferred' = [deferred EXCEPT
                                !.pc = "settled",
                                !.result = [kind |-> "promise", state |-> "rejected",
                                            value |-> arg]]
           ELSE deferred' = [deferred EXCEPT
                                !.pc = "settled",
                                !.ebCalls = Append(@, arg),
                                !.result = Derived(Apply(deferred.eb, arg))]
    /\ WhenFrame

WhenNext == WhenCall \/ Settle \/ Reaction
InitWhen == WhenInit
SpecWhen == InitWhen /\ [][WhenNext]_vars

WhenReturned == deferred.pc \in {"returned", "settled"}

\* C24: on a value that is not a thenable, when calls cb once, before it
\* returns, with the value, and returns what cb returns; on a thenable it calls
\* nothing before it returns, returns the promise of val.then(cb, eb), and an
\* error of the promise goes to eb and never to cb.
C24_When ==
    WhenReturned =>
        IF ~isPromise(deferred.val)
        THEN /\ deferred.sync = 1
             /\ deferred.cbCalls = <<deferred.val>>
             /\ deferred.ebCalls = << >>
             /\ deferred.result = Apply(deferred.cb, deferred.val)
        ELSE /\ deferred.sync = 0
             /\ deferred.result.kind = "promise"
             /\ deferred.val.state = "rejected" => deferred.cbCalls = << >>
             /\ deferred.val.state = "fulfilled" => deferred.ebCalls = << >>
             /\ (deferred.pc = "settled" /\ deferred.val.state = "rejected"
                 /\ deferred.eb # "absent") =>
                    deferred.ebCalls = <<Number(deferred.val.value)>>
             /\ (deferred.pc = "settled" /\ deferred.val.state = "fulfilled") =>
                    deferred.cbCalls = <<Number(deferred.val.value)>>

C24_Witness ==
    /\ deferred.pc = "settled"
    /\ deferred.val.state = "rejected"
    /\ deferred.ebCalls # << >>
    /\ deferred.cbCalls = << >>

\* C25: without stitching every section of the plan has exactly one view-port,
\* at (0, 0) and of the section's size, so a capture that completes takes one
\* raw screenshot per section; with or without stitching it takes one raw
\* screenshot per view-port of the plan.
C25_OneScreenshotPerViewPort ==
    /\ (pc = "planned" /\ ~needsStitching) =>
          \A k \in 1..Len(sections) :
              /\ Len(sections[k].viewPorts) = 1
              /\ sections[k].viewPorts[1].x = 0
              /\ sections[k].viewPorts[1].y = 0
              /\ sections[k].viewPorts[1].width = sections[k].width
              /\ sections[k].viewPorts[1].height = sections[k].height
    /\ step = "done" =>
          /\ Cardinality(RawScreenshots) = Len(ViewPortList(sections))
          /\ \A c \in 1..Len(ViewPortList(sections)) :
                Cardinality({p \in RawScreenshots :
                    log[p].index = ViewPortList(sections)[c].viewPort.index}) = 1
          /\ ~needsStitching => Cardinality(RawScreenshots) = Len(sections)

C25_Witness ==
    /\ step = "done"
    /\ ~needsStitching
    /\ Len(sections) > 1
    /\ initData.document.width > initData.viewPort.width
    /\ Cardinality(RawScreenshots) = Len(sections)

\* C27: for every input that passes the document-width check and the area
\* validation, _gatherSections and _gatherViewPortSections return a finite
\* plan: the planner never runs without end.
C27_PlannerTerminates == pc # "diverged"

(***************************************************************************)
(* The calibration scripts of lib/scripts/devicePixelRatio.js, run in the  *)
(* page: init shrinks the document, revert is given what init returned.    *)
(* document holds the inline styles of the body and of the document        *)
(* element, the initData of the init script, and the styles before init.   *)
(***************************************************************************)
StyleProperties == {"overflow", "width", "height", "minWidth", "minHeight"}

\* what a page may have set on an element before the calibration
PageStyles ==
    [overflow : {"", "scroll"}, width : {"", "100px"}, height : {"", "100px"},
     minWidth : {"", "50px"}, minHeight : {"", "50px"}]

\* viewPortWidth + 'px'
Px(n) == IF n = 5 THEN "5px" ELSE "10px"

NoInitData == [bodyOverflow |-> "", bodyWidth |-> "", bodyHeight |-> "",
               viewPortWidth |-> 0]

DocumentInit ==
    /\ PlanIdle /\ CaptureIdle /\ CompareIdle
    /\ mode = "sync"
    /\ session = [pc |-> "idle"]
    /\ waiter = [pc |-> "idle"]
    /\ validation = [pc |-> "idle"]
    /\ deferred = [pc |-> "idle"]
    /\ \E body \in PageStyles, de \in PageStyles, w \in CalibrationViewPorts :
          document = [pc |-> "page", body |-> body, de |-> de,
                      viewPortWidth |-> w, initData |-> NoInitData,
                      before |-> [body |-> body, de |-> de]]

DocumentFrame == UNCHANGED <<planVars, captureVars, compareVars, session, waiter,
                             validation, deferred>>

\* init: lines 7-49
devicePixelRatioInit ==
    /\ document.pc = "page"
    /\ LET saved    == [bodyOverflow  |-> document.body.overflow,
                        bodyWidth     |-> document.body.width,
                        bodyHeight    |-> document.body.height,
                        viewPortWidth |-> document.viewPortWidth]
           shrunk   == [overflow |-> "hidden", width |-> Px(saved.viewPortWidth),
                        height |-> "1px", minHeight |-> "0", minWidth |-> "0"]
       IN  document' = [document EXCEPT !.pc = "shrunk", !.initData = saved,
                                        !.body = shrunk, !.de = shrunk]
    /\ DocumentFrame

\* revert: lines 51-58
devicePixelRatioRevert ==
    /\ document.pc = "shrunk"
    /\ document' = [document EXCEPT
                       !.pc = "reverted",
                       !.body.overflow = document.initData.bodyOverflow,
                       !.body.width    = document.initData.bodyWidth,
                       !.body.height   = document.initData.bodyHeight]
    /\ DocumentFrame

CalibrationNext == devicePixelRatioInit \/ devicePixelRatioRevert
InitCalibration == DocumentInit
SpecCalibration == InitCalibration /\ [][CalibrationNext]_vars

\* C30: after init followed by revert, every style property that init changed
\* on the body and on the document element has the value it had before init.
C30_CalibrationRestores ==
    document.pc = "reverted" =>
        \A prop \in StyleProperties :
            /\ document.body[prop] = document.before.body[prop]
            /\ document.de[prop] = document.before.de[prop]

====
